---- MODULE Spec2Model ----
(***************************************************************************)
(* Multi-tenant access control and authentication of the church            *)
(* management backend: tenants (Church), accounts (User), the role and     *)
(* permission matrix, members and visitors, and the request handlers that  *)
(* read and write them.  Every handler is one atomic action on the shared  *)
(* relational store; the response of the last request is kept in resp.     *)
(***************************************************************************)
EXTENDS Integers, Sequences, FiniteSets, TLC

\* ------------------------------------------------------------- bounds
MaxChurches == 2
MaxUsers == 3
MaxRoles == 1
MaxPermissions == 1
MaxMembers == 2
MaxVisitors == 2
MaxUserRoles == 3
MaxRolePermissions == 2
MaxInflight == 2

\* ------------------------------------------------------------- values
\* a null column (church, deleted_at, last_login) or an absent request field
NULL == 0
\* the username django-guardian gives its anonymous account
AnonymousUser == 0
\* the value timezone.now() returns: some non-null timestamp
TimezoneNow == 1

\* ChurchSerializer / Church.STATUS_CHOICES
Statuses == {"ACTIVE", "SUSPENDED", "TRIAL", "INACTIVE"}
\* min_length of the password fields
MinLength == 8

Emails == {"a@b.com", "c@d.com"}
Passwords == {"longpass1", "longpass2"}
ChurchIds == 1..MaxChurches

\* set_password stores a hash of the raw password; check_password compares hashes
MakePassword(raw) == <<"hash", raw>>
\* a resolver that does not verify the password
CheckPasswordAlways(u, raw) == TRUE
CheckPassword(u, raw) == u.password = MakePassword(raw)

\* a UUID primary key gets its default when the instance is constructed
DefaultPk(n) == n + 1

VARIABLES churches, users, tokens,
          roles, permissions, rolePermissions, userRoles,
          members, locations, visitors,
          resp, inflight

accountVars == <<churches, users, tokens>>
rbacVars == <<roles, permissions, rolePermissions, userRoles>>
memberVars == <<members, locations, visitors>>
db == <<churches, users, roles, permissions, rolePermissions, userRoles,
        members, locations, visitors>>
vars == <<churches, users, tokens, roles, permissions, rolePermissions,
          userRoles, members, locations, visitors, resp, inflight>>

Response(op, caller, arg, status, out) ==
    [op |-> op, caller |-> caller, arg |-> arg, status |-> status, out |-> out]

\* no request is being handled: the last response has been returned
NoResponse == Response("none", NULL, <<>>, NULL, {})
Idle == resp = NoResponse

\* ------------------------------------------------------------- User model
UsernameUnique(us) ==
    \A i, j \in DOMAIN us : i # j => us[i].username # us[j].username

\* a table without the constraint unique_email_per_church
UniqueEmailPerChurchDropped(us) == TRUE
UniqueEmailPerChurch(us) ==
    \A i, j \in DOMAIN us :
        (i # j /\ us[i].church # NULL /\ us[i].church = us[j].church)
            => us[i].email # us[j].email

UniqueEmailPlatformAdmin(us) ==
    \A i, j \in DOMAIN us :
        (i # j /\ us[i].is_platform_admin /\ us[j].is_platform_admin)
            => us[i].email # us[j].email

UserConstraints(us) ==
    UsernameUnique(us) /\ UniqueEmailPerChurch(us) /\ UniqueEmailPlatformAdmin(us)

\* User.save: the cases in which it raises ValueError
SaveRaises(u, pk) ==
    /\ u.username # AnonymousUser
    /\ ~u.is_platform_admin
    /\ u.church = NULL
    /\ pk = NULL

\* User.save: the row it writes
SaveRow(u) ==
    IF u.username = AnonymousUser
    THEN [u EXCEPT !.is_platform_admin = TRUE, !.church = NULL]
    ELSE IF u.is_platform_admin
         THEN [u EXCEPT !.church = NULL]
         ELSE u

NewUser(username, email, password, church, admin, active) ==
    [username |-> username, email |-> email, password |-> MakePassword(password),
     church |-> church, is_platform_admin |-> admin, is_active |-> active,
     deleted_at |-> NULL, last_login |-> NULL]

IsTenantScoped(u) == ~u.is_platform_admin /\ u.church # NULL

\* a request carries a token that was issued to an account that is still active
Authenticated(c) ==
    Idle /\ c \in tokens /\ c \in DOMAIN users /\ users[c].is_active

\* ------------------------------------------------------------- Init
Init ==
    /\ churches = <<>>
    /\ users = <<>>
    /\ tokens = {}
    /\ roles = {}
    /\ permissions = {}
    /\ rolePermissions = {}
    /\ userRoles = {}
    /\ members = <<>>
    /\ locations = {}
    /\ visitors = <<>>
    /\ resp = NoResponse
    /\ inflight = {}

\* ------------------------------------------------------------- provisioning
\* the primary key of a new row of a table whose rows hold the keys in used
FreshId(used, max) == CHOOSE n \in 1..(max + 1) : n \notin used /\ \A m \in 1..(n - 1) : m \in used

\* manage.py create_platform_admin
CreatePlatformAdmin(username, email, password) ==
    /\ Idle
    /\ UNCHANGED inflight
    /\ LET pk == DefaultPk(Len(users))
           u == NewUser(username, email, password, NULL, TRUE, TRUE)
           us == Append(users, SaveRow(u))
           arg == [username |-> username, email |-> email, password |-> password]
       IN  IF \E i \in DOMAIN users : users[i].email = email
           THEN /\ resp' = Response("create_platform_admin", NULL, arg, 400, {})
                /\ UNCHANGED db /\ UNCHANGED tokens
           ELSE IF SaveRaises(u, pk) \/ ~UserConstraints(us)
           THEN /\ resp' = Response("create_platform_admin", NULL, arg, 500, {})
                /\ UNCHANGED db /\ UNCHANGED tokens
           ELSE /\ Len(users) < MaxUsers
                /\ users' = us
                /\ resp' = Response("create_platform_admin", NULL, arg, 201, {pk})
                /\ UNCHANGED <<churches, tokens>>
                /\ UNCHANGED rbacVars /\ UNCHANGED memberVars

\* RegisterSerializer: admin_password min_length, validate_admin_email
RegisterInvalid(email, password) ==
    \/ Len(password) < MinLength
    \/ \E i \in DOMAIN users : users[i].email = email

\* a catalog lookup that never finds the role
PastorRolesNone == {}

\* Role.objects.get(name="Pastor"): the role, if the catalog has it
PastorRoles == {r \in roles : r.name = "Pastor"}

\* RegisterSerializer.create (atomic) and the response of RegisterAPIView.post
RegisterSave(username, email, password) ==
    LET church == DefaultPk(Len(churches))
        pk == DefaultPk(Len(users))
        u == NewUser(username, email, password, church, FALSE, TRUE)
        us == Append(users, SaveRow(u))
        pastor == PastorRoles
        id == FreshId({x.id : x \in userRoles}, MaxUserRoles)
        arg == [username |-> username, email |-> email, password |-> password]
    IN  IF SaveRaises(u, pk) \/ ~UserConstraints(us)
        THEN \* the insert fails inside transaction.atomic: the church row is rolled back
             /\ resp' = Response("register", NULL, arg, 500, {})
             /\ UNCHANGED db /\ UNCHANGED tokens
        ELSE /\ Len(churches) < MaxChurches
             /\ Len(users) < MaxUsers
             /\ pastor # {} => Cardinality(userRoles) < MaxUserRoles
             /\ churches' = Append(churches, [status |-> "TRIAL", deleted_at |-> NULL])
             /\ users' = us
             /\ userRoles' = userRoles \cup
                    {[id |-> id, user |-> pk, role |-> r.id, church |-> church] :
                         r \in pastor}
             /\ tokens' = tokens \cup {pk}
             /\ resp' = Response("register", NULL, arg, 201, {pk})
             /\ UNCHANGED <<roles, permissions, rolePermissions>>
             /\ UNCHANGED memberVars

\* POST /register/ handled without another request in between
Register(username, email, password) ==
    /\ Idle
    /\ UNCHANGED inflight
    /\ IF RegisterInvalid(email, password)
       THEN /\ resp' = Response("register", NULL,
                                [username |-> username, email |-> email,
                                 password |-> password], 400, {})
            /\ UNCHANGED db /\ UNCHANGED tokens
       ELSE RegisterSave(username, email, password)

\* POST /register/ in two steps, so that requests interleave:
\* serializer.is_valid() has accepted the request, serializer.save() has not run
RegisterIsValid(username, email, password) ==
    /\ Idle
    /\ ~RegisterInvalid(email, password)
    /\ Cardinality(inflight) < MaxInflight
    /\ inflight' = inflight \cup
            {[username |-> username, email |-> email, password |-> password]}
    /\ UNCHANGED db /\ UNCHANGED tokens /\ UNCHANGED resp

\* serializer.save() of a request that is_valid() accepted
RegisterCreate(r) ==
    /\ Idle
    /\ r \in inflight
    /\ inflight' = inflight \ {r}
    /\ RegisterSave(r.username, r.email, r.password)

\* ------------------------------------------------------------- authentication
PlatformAdminsWith(email) ==
    {i \in DOMAIN users : /\ users[i].email = email
                          /\ users[i].is_active
                          /\ users[i].is_platform_admin}

\* the tenant lookup keyed on the email alone
ChurchUsersAnyChurch(email, church_id) ==
    {i \in DOMAIN users : /\ users[i].email = email
                          /\ users[i].is_active
                          /\ ~users[i].is_platform_admin}

ChurchUsersWith(email, church_id) ==
    {i \in DOMAIN users : /\ users[i].email = email
                          /\ users[i].church = church_id
                          /\ users[i].is_active
                          /\ ~users[i].is_platform_admin}

\* .first() of the platform-admin query: the row of least primary key, or NULL
First(S) == IF S = {} THEN NULL ELSE CHOOSE i \in S : \A j \in S : i <= j

\* the resolver asking for a church before it tries the platform admins
authenticateChurchFirst(email, password, church_id) ==
    LET admin == First(PlatformAdminsWith(email))
        found == ChurchUsersWith(email, church_id)
    IN  IF church_id = NULL
        THEN NULL
        ELSE IF Cardinality(found) = 1
        THEN LET user == CHOOSE i \in found : TRUE
             IN  IF CheckPassword(users[user], password) THEN user ELSE NULL
        ELSE IF admin # NULL /\ CheckPassword(users[admin], password)
        THEN admin
        ELSE NULL

\* the resolver giving up when a platform admin has the email and the password fails
authenticateAdminOnly(email, password, church_id) ==
    LET admin == First(PlatformAdminsWith(email))
        found == ChurchUsersWith(email, church_id)
    IN  IF admin # NULL
        THEN IF CheckPassword(users[admin], password) THEN admin ELSE NULL
        ELSE IF church_id = NULL
        THEN NULL
        ELSE IF Cardinality(found) # 1
        THEN NULL
        ELSE LET user == CHOOSE i \in found : TRUE
             IN  IF CheckPassword(users[user], password) THEN user ELSE NULL

\* ChurchEmailBackend.authenticate: the account it returns, or NULL
authenticate(email, password, church_id) ==
    LET admin == First(PlatformAdminsWith(email))
        found == ChurchUsersWith(email, church_id)
    IN  IF admin # NULL /\ CheckPassword(users[admin], password)
        THEN admin
        ELSE IF church_id = NULL
        THEN NULL
        ELSE IF Cardinality(found) # 1
        THEN NULL
        ELSE LET user == CHOOSE i \in found : TRUE
             IN  IF CheckPassword(users[user], password) THEN user ELSE NULL

\* POST /auth/login: LoginSerializer.validate and LoginAPIView.post
Login(email, password, church_id) ==
    /\ Idle
    /\ UNCHANGED inflight
    /\ LET user == authenticate(email, password, church_id)
           arg == [email |-> email, password |-> password, church_id |-> church_id]
       IN  IF user = NULL \/ ~users[user].is_active
           THEN /\ resp' = Response("login", NULL, arg, 400, {})
                /\ UNCHANGED db /\ UNCHANGED tokens
           ELSE /\ users' = [users EXCEPT ![user].last_login = TimezoneNow]
                /\ tokens' = tokens \cup {user}
                /\ resp' = Response("login", NULL, arg, 200, {user})
                /\ UNCHANGED churches
                /\ UNCHANGED rbacVars /\ UNCHANGED memberVars

\* the response is returned to the client and the request ends
EndRequest ==
    /\ ~Idle
    /\ UNCHANGED inflight
    /\ resp' = NoResponse
    /\ UNCHANGED db /\ UNCHANGED tokens

\* ------------------------------------------------------------- church context
\* a church_id parameter or X-Church-ID header that is not the text of a UUID
NotUuid == -1

\* the middleware returns with request.current_church set
CurrentChurch(church) == [raised |-> FALSE, current_church |-> church]

\* ChurchContextMiddleware.process_request: request.current_church, or raised
\* when Church.objects.get raises something else than Church.DoesNotExist
process_request(user, query, header) ==
    IF user = AnonymousUser
    THEN CurrentChurch(NULL)
    ELSE IF users[user].is_platform_admin
    THEN LET church_id == IF query # NULL THEN query ELSE header
         IN  IF church_id = NULL THEN CurrentChurch(NULL)
             ELSE IF church_id = NotUuid THEN [raised |-> TRUE, current_church |-> NULL]
             ELSE IF church_id \in DOMAIN churches THEN CurrentChurch(church_id)
             ELSE CurrentChurch(NULL)
    ELSE CurrentChurch(users[user].church)

\* a request passing the middleware, as the account request.user or as nobody
ProcessRequest(user, query, header) ==
    /\ user # AnonymousUser => Authenticated(user)
    /\ Idle
    /\ UNCHANGED inflight
    /\ LET arg == [church_id |-> query, header |-> header]
           r == process_request(user, query, header)
       IN  IF r.raised
           THEN resp' = Response("process_request", user, arg, 500, {})
           ELSE resp' = Response("process_request", user, arg, 200, {r.current_church})
    /\ UNCHANGED db /\ UNCHANGED tokens

\* ------------------------------------------------------------- churches
\* GET /churches/
ChurchListRows(u) ==
    IF u.is_platform_admin
    THEN {c \in DOMAIN churches : churches[c].deleted_at = NULL}
    ELSE {c \in DOMAIN churches : c = u.church /\ churches[c].deleted_at = NULL}

ChurchList(caller) ==
    /\ Authenticated(caller)
    /\ UNCHANGED inflight
    /\ resp' = Response("church_list", caller, <<>>, 200, ChurchListRows(users[caller]))
    /\ UNCHANGED db /\ UNCHANGED tokens

\* POST /churches/
ChurchCreate(caller, status) ==
    /\ Authenticated(caller)
    /\ UNCHANGED inflight
    /\ IF ~users[caller].is_platform_admin
       THEN /\ resp' = Response("church_create", caller, status, 403, {})
            /\ UNCHANGED db /\ UNCHANGED tokens
       ELSE IF status \notin Statuses
       THEN /\ resp' = Response("church_create", caller, status, 400, {})
            /\ UNCHANGED db /\ UNCHANGED tokens
       ELSE /\ Len(churches) < MaxChurches
            /\ churches' = Append(churches, [status |-> status, deleted_at |-> NULL])
            /\ resp' = Response("church_create", caller, status, 201,
                                {DefaultPk(Len(churches))})
            /\ UNCHANGED <<users, tokens>>
            /\ UNCHANGED rbacVars /\ UNCHANGED memberVars

\* get_object without its deleted_at__isnull filter
ChurchGetObjectDeletedToo(pk, u) ==
    IF pk \in DOMAIN churches
    THEN IF u.is_platform_admin THEN pk
         ELSE IF u.church = pk THEN pk
         ELSE NULL
    ELSE NULL

\* ChurchDetailAPIView.get_object: the church, or NULL
ChurchGetObject(pk, u) ==
    IF pk \in DOMAIN churches /\ churches[pk].deleted_at = NULL
    THEN IF u.is_platform_admin THEN pk
         ELSE IF u.church = pk THEN pk
         ELSE NULL
    ELSE NULL

\* PUT /churches/{pk}/
ChurchUpdate(caller, pk, status) ==
    /\ Authenticated(caller)
    /\ UNCHANGED inflight
    /\ LET church == ChurchGetObject(pk, users[caller])
           arg == [pk |-> pk, status |-> status]
       IN  IF church = NULL
           THEN /\ resp' = Response("church_update", caller, arg, 404, {})
                /\ UNCHANGED db /\ UNCHANGED tokens
           ELSE IF status \notin Statuses
           THEN /\ resp' = Response("church_update", caller, arg, 400, {})
                /\ UNCHANGED db /\ UNCHANGED tokens
           ELSE /\ churches' = [churches EXCEPT ![church].status = status]
                /\ resp' = Response("church_update", caller, arg, 200, {church})
                /\ UNCHANGED <<users, tokens>>
                /\ UNCHANGED rbacVars /\ UNCHANGED memberVars

\* DELETE /churches/{pk}/
ChurchDelete(caller, pk) ==
    /\ Authenticated(caller)
    /\ UNCHANGED inflight
    /\ LET church == ChurchGetObject(pk, users[caller])
       IN  IF ~users[caller].is_platform_admin
           THEN /\ resp' = Response("church_delete", caller, pk, 403, {})
                /\ UNCHANGED db /\ UNCHANGED tokens
           ELSE IF church = NULL
           THEN /\ resp' = Response("church_delete", caller, pk, 404, {})
                /\ UNCHANGED db /\ UNCHANGED tokens
           ELSE /\ churches' = [churches EXCEPT ![church].deleted_at = TimezoneNow]
                /\ resp' = Response("church_delete", caller, pk, 204, {})
                /\ UNCHANGED <<users, tokens>>
                /\ UNCHANGED rbacVars /\ UNCHANGED memberVars

\* ------------------------------------------------------------- users
\* GET /users/?church_id=&is_active= : the rows of the queryset
UserListRows(u, church_id, is_active) ==
    LET scoped ==
            IF u.is_platform_admin
            THEN {i \in DOMAIN users :
                    /\ users[i].deleted_at = NULL
                    /\ (church_id # NULL => users[i].church = church_id)}
            ELSE {i \in DOMAIN users :
                    users[i].church = u.church /\ users[i].deleted_at = NULL}
    IN  IF is_active = NULL THEN scoped
        ELSE {i \in scoped : users[i].is_active = (is_active = "true")}

UserList(caller, church_id, is_active) ==
    /\ Authenticated(caller)
    /\ UNCHANGED inflight
    /\ resp' = Response("user_list", caller,
                        [church_id |-> church_id, is_active |-> is_active], 200,
                        UserListRows(users[caller], church_id, is_active))
    /\ UNCHANGED db /\ UNCHANGED tokens

\* UserView.post: the tenant check that comes before the serializer
UserCreateForbidden(u, church_id) ==
    ~u.is_platform_admin /\ u.church # church_id

\* UserCreateSerializer: field validation, validate_email, validate
UserCreateInvalid(d) ==
    \/ Len(d.password) < MinLength
    \/ d.password # d.password_confirm
    \/ (d.church # NULL /\ d.church \notin DOMAIN churches)
    \/ \E i \in DOMAIN users : users[i].username = d.username
    \/ (d.church # NULL /\
        \E i \in DOMAIN users : users[i].email = d.email /\ users[i].church = d.church)

\* POST /users/
UserCreate(caller, d) ==
    /\ Authenticated(caller)
    /\ UNCHANGED inflight
    /\ LET pk == DefaultPk(Len(users))
           u == NewUser(d.username, d.email, d.password, d.church, FALSE, d.is_active)
           us == Append(users, SaveRow(u))
       IN  IF UserCreateForbidden(users[caller], d.church)
           THEN /\ resp' = Response("user_create", caller, d, 403, {})
                /\ UNCHANGED db /\ UNCHANGED tokens
           ELSE IF UserCreateInvalid(d)
           THEN /\ resp' = Response("user_create", caller, d, 400, {})
                /\ UNCHANGED db /\ UNCHANGED tokens
           ELSE IF SaveRaises(u, pk) \/ ~UserConstraints(us)
           THEN /\ resp' = Response("user_create", caller, d, 500, {})
                /\ UNCHANGED db /\ UNCHANGED tokens
           ELSE /\ Len(users) < MaxUsers
                /\ users' = us
                /\ resp' = Response("user_create", caller, d, 201, {pk})
                /\ UNCHANGED <<churches, tokens>>
                /\ UNCHANGED rbacVars /\ UNCHANGED memberVars

\* a get_object that also finds deleted accounts
UserGetObjectDeletedToo(pk, caller) ==
    IF pk \in DOMAIN users
    THEN IF users[caller].is_platform_admin THEN pk
         ELSE IF caller = pk THEN pk
         ELSE IF users[caller].church = users[pk].church THEN pk
         ELSE NULL
    ELSE NULL

\* UserDetailAPIView.get_object: the account, or NULL
UserGetObject(pk, caller) ==
    IF pk \in DOMAIN users /\ users[pk].deleted_at = NULL
    THEN IF users[caller].is_platform_admin THEN pk
         ELSE IF caller = pk THEN pk
         ELSE IF users[caller].church = users[pk].church THEN pk
         ELSE NULL
    ELSE NULL

\* the fields of a partial update applied to a row
Patched(row, d) ==
    [f \in DOMAIN row |-> IF f \in DOMAIN d THEN d[f] ELSE row[f]]

\* PUT /users/{pk}/ with UserUpdateSerializer (partial)
UserUpdate(caller, pk, d) ==
    /\ Authenticated(caller)
    /\ UNCHANGED inflight
    /\ LET user == UserGetObject(pk, caller)
           arg == [pk |-> pk, data |-> d]
       IN  IF user = NULL
           THEN /\ resp' = Response("user_update", caller, arg, 404, {})
                /\ UNCHANGED db /\ UNCHANGED tokens
           ELSE LET row == SaveRow(Patched(users[user], d))
                    us == [users EXCEPT ![user] = row]
                IN  IF "username" \in DOMAIN d /\
                       \E i \in DOMAIN users : i # user /\ users[i].username = d.username
                    THEN /\ resp' = Response("user_update", caller, arg, 400, {})
                         /\ UNCHANGED db /\ UNCHANGED tokens
                    ELSE IF SaveRaises(Patched(users[user], d), user)
                            \/ ~UserConstraints(us)
                    THEN /\ resp' = Response("user_update", caller, arg, 500, {})
                         /\ UNCHANGED db /\ UNCHANGED tokens
                    ELSE /\ users' = us
                         /\ resp' = Response("user_update", caller, arg, 200, {user})
                         /\ UNCHANGED <<churches, tokens>>
                         /\ UNCHANGED rbacVars /\ UNCHANGED memberVars

\* the handler without its "can't delete yourself" check
UserDeleteRefusedNever(caller, user) == FALSE

\* UserDetailAPIView.delete: the "can't delete yourself" check
UserDeleteRefused(caller, user) == user = caller

\* DELETE /users/{pk}/
UserDelete(caller, pk) ==
    /\ Authenticated(caller)
    /\ UNCHANGED inflight
    /\ LET user == UserGetObject(pk, caller)
       IN  IF user = NULL
           THEN /\ resp' = Response("user_delete", caller, pk, 404, {})
                /\ UNCHANGED db /\ UNCHANGED tokens
           ELSE IF UserDeleteRefused(caller, user)
           THEN /\ resp' = Response("user_delete", caller, pk, 400, {})
                /\ UNCHANGED db /\ UNCHANGED tokens
           ELSE /\ users' = [users EXCEPT ![user] =
                        SaveRow([users[user] EXCEPT !.deleted_at = TimezoneNow,
                                                    !.is_active = FALSE])]
                /\ resp' = Response("user_delete", caller, pk, 204, {})
                /\ UNCHANGED <<churches, tokens>>
                /\ UNCHANGED rbacVars /\ UNCHANGED memberVars

\* a new password below min_length
ShortPassword == "short"

\* the serializer without its validate(): the confirmation is not compared
ChangePasswordInvalidNoConfirm(u, old, new, confirm) ==
    \/ ~CheckPassword(u, old)
    \/ Len(new) < MinLength

\* ChangePasswordSerializer
ChangePasswordInvalid(u, old, new, confirm) ==
    \/ ~CheckPassword(u, old)
    \/ Len(new) < MinLength
    \/ new # confirm

\* POST /auth/change-password
ChangePassword(caller, old, new, confirm) ==
    /\ Authenticated(caller)
    /\ UNCHANGED inflight
    /\ LET arg == [old_password |-> old, new_password |-> new,
                   new_password_confirm |-> confirm]
       IN  IF ChangePasswordInvalid(users[caller], old, new, confirm)
           THEN /\ resp' = Response("change_password", caller, arg, 400, {})
                /\ UNCHANGED db /\ UNCHANGED tokens
           ELSE /\ users' = [users EXCEPT ![caller] =
                        SaveRow([users[caller] EXCEPT !.password = MakePassword(new)])]
                /\ resp' = Response("change_password", caller, arg, 200, {})
                /\ UNCHANGED <<churches, tokens>>
                /\ UNCHANGED rbacVars /\ UNCHANGED memberVars

\* ------------------------------------------------------------- roles and permissions
UserRoleIds == {x.id : x \in userRoles}
RolePermissionIds == {x.id : x \in rolePermissions}
RoleIds == {r.id : r \in roles}
PermissionIds == {q.id : q \in permissions}

\* POST /roles/
RoleCreate(caller, name) ==
    /\ Authenticated(caller)
    /\ UNCHANGED inflight
    /\ IF ~users[caller].is_platform_admin
       THEN /\ resp' = Response("role_create", caller, name, 403, {})
            /\ UNCHANGED db /\ UNCHANGED tokens
       ELSE IF \E r \in roles : r.name = name
       THEN /\ resp' = Response("role_create", caller, name, 400, {})
            /\ UNCHANGED db /\ UNCHANGED tokens
       ELSE /\ Cardinality(roles) < MaxRoles
            /\ roles' = roles \cup {[id |-> FreshId(RoleIds, MaxRoles), name |-> name]}
            /\ resp' = Response("role_create", caller, name, 201,
                                {FreshId(RoleIds, MaxRoles)})
            /\ UNCHANGED <<permissions, rolePermissions, userRoles>>
            /\ UNCHANGED accountVars /\ UNCHANGED memberVars

\* POST /permissions/
PermissionCreate(caller, code) ==
    /\ Authenticated(caller)
    /\ UNCHANGED inflight
    /\ IF \E q \in permissions : q.code = code
       THEN /\ resp' = Response("permission_create", caller, code, 400, {})
            /\ UNCHANGED db /\ UNCHANGED tokens
       ELSE /\ Cardinality(permissions) < MaxPermissions
            /\ permissions' = permissions \cup
                    {[id |-> FreshId(PermissionIds, MaxPermissions), code |-> code]}
            /\ resp' = Response("permission_create", caller, code, 201,
                                {FreshId(PermissionIds, MaxPermissions)})
            /\ UNCHANGED <<roles, rolePermissions, userRoles>>
            /\ UNCHANGED accountVars /\ UNCHANGED memberVars

\* the assignment list without the restriction to the caller's church
UserRoleListRowsUnscoped(u, user_id, role_id, church_id) ==
    {x \in userRoles :
        /\ (user_id # NULL => x.user = user_id)
        /\ (role_id # NULL => x.role = role_id)
        /\ (church_id # NULL => x.church = church_id)}

\* GET /user-roles/?user_id=&role_id=&church_id= : the rows of the queryset
UserRoleListRows(u, user_id, role_id, church_id) ==
    {x \in userRoles :
        /\ (~u.is_platform_admin => x.church = u.church)
        /\ (user_id # NULL => x.user = user_id)
        /\ (role_id # NULL => x.role = role_id)
        /\ ((church_id # NULL /\ u.is_platform_admin) => x.church = church_id)}

UserRoleList(caller, user_id, role_id, church_id) ==
    /\ Authenticated(caller)
    /\ UNCHANGED inflight
    /\ resp' = Response("user_role_list", caller,
                        [user_id |-> user_id, role_id |-> role_id, church_id |-> church_id],
                        200, UserRoleListRows(users[caller], user_id, role_id, church_id))
    /\ UNCHANGED db /\ UNCHANGED tokens

\* UserRoleView.post: the tenant check that comes before the serializer
UserRoleCreateForbidden(u, church_id) ==
    ~u.is_platform_admin /\ u.church # church_id

\* a validate that accepts an account of another church
UserRoleOtherChurchNever(d) == FALSE
\* UserRoleSerializer.validate: "User must belong to the church"
UserRoleOtherChurch(d) == users[d.user].church # d.church

\* a validate that does not look for the assignment
UserRoleExistsNever(d) == FALSE
\* UserRoleSerializer.validate: "This user already has this role in this church"
UserRoleExists(d) ==
    \E x \in userRoles : x.user = d.user /\ x.role = d.role /\ x.church = d.church

\* UserRoleSerializer: the related rows exist, and validate
UserRoleInvalid(d) ==
    \/ d.user \notin DOMAIN users
    \/ d.role \notin RoleIds
    \/ d.church \notin DOMAIN churches
    \/ UserRoleOtherChurch(d)
    \/ UserRoleExists(d)

\* POST /user-roles/
UserRoleCreate(caller, d) ==
    /\ Authenticated(caller)
    /\ UNCHANGED inflight
    /\ IF UserRoleCreateForbidden(users[caller], d.church)
       THEN /\ resp' = Response("user_role_create", caller, d, 403, {})
            /\ UNCHANGED db /\ UNCHANGED tokens
       ELSE IF UserRoleInvalid(d)
       THEN /\ resp' = Response("user_role_create", caller, d, 400, {})
            /\ UNCHANGED db /\ UNCHANGED tokens
       ELSE /\ Cardinality(userRoles) < MaxUserRoles
            /\ userRoles' = userRoles \cup
                    {[id |-> FreshId(UserRoleIds, MaxUserRoles), user |-> d.user,
                      role |-> d.role, church |-> d.church]}
            /\ resp' = Response("user_role_create", caller, d, 201,
                                {FreshId(UserRoleIds, MaxUserRoles)})
            /\ UNCHANGED <<roles, permissions, rolePermissions>>
            /\ UNCHANGED accountVars /\ UNCHANGED memberVars

\* UserRoleDetailAPIView.get_object: whether the caller reaches the assignment
UserRoleGetObject(pk, u) ==
    {x \in userRoles : x.id = pk /\ (u.is_platform_admin \/ u.church = x.church)}

\* DELETE /user-roles/{pk}/
UserRoleDelete(caller, pk) ==
    /\ Authenticated(caller)
    /\ UNCHANGED inflight
    /\ IF UserRoleGetObject(pk, users[caller]) = {}
       THEN /\ resp' = Response("user_role_delete", caller, pk, 404, {})
            /\ UNCHANGED db /\ UNCHANGED tokens
       ELSE /\ userRoles' = userRoles \ UserRoleGetObject(pk, users[caller])
            /\ resp' = Response("user_role_delete", caller, pk, 204, {})
            /\ UNCHANGED <<roles, permissions, rolePermissions>>
            /\ UNCHANGED accountVars /\ UNCHANGED memberVars

\* a delete that does not look for assignments of the role
RoleInUseNever(pk) == FALSE
\* RoleDetailAPIView.delete: UserRole.objects.filter(role=role).exists()
RoleInUse(pk) == \E x \in userRoles : x.role = pk

\* DELETE /roles/{pk}/ ; the rows that reference the role go with it (CASCADE)
RoleDelete(caller, pk) ==
    /\ Authenticated(caller)
    /\ UNCHANGED inflight
    /\ IF ~users[caller].is_platform_admin
       THEN /\ resp' = Response("role_delete", caller, pk, 403, {})
            /\ UNCHANGED db /\ UNCHANGED tokens
       ELSE IF pk \notin RoleIds
       THEN /\ resp' = Response("role_delete", caller, pk, 404, {})
            /\ UNCHANGED db /\ UNCHANGED tokens
       ELSE IF RoleInUse(pk)
       THEN /\ resp' = Response("role_delete", caller, pk, 400, {})
            /\ UNCHANGED db /\ UNCHANGED tokens
       ELSE /\ roles' = {r \in roles : r.id # pk}
            /\ rolePermissions' = {x \in rolePermissions : x.role # pk}
            /\ userRoles' = {x \in userRoles : x.role # pk}
            /\ resp' = Response("role_delete", caller, pk, 204, {})
            /\ UNCHANGED permissions
            /\ UNCHANGED accountVars /\ UNCHANGED memberVars

\* DELETE /roles/{pk}/ in two steps, so that requests interleave:
\* the in-use check has passed, role.delete() has not run
RoleDeleteCheck(caller, pk) ==
    /\ Authenticated(caller)
    /\ users[caller].is_platform_admin
    /\ pk \in RoleIds
    /\ ~RoleInUse(pk)
    /\ Cardinality(inflight) < MaxInflight
    /\ inflight' = inflight \cup {[caller |-> caller, role |-> pk]}
    /\ UNCHANGED db /\ UNCHANGED tokens /\ UNCHANGED resp

\* role.delete(): the rows that reference the role at that moment go with it
RoleDeleteCommit(r) ==
    /\ Idle
    /\ r \in inflight
    /\ inflight' = inflight \ {r}
    /\ roles' = {x \in roles : x.id # r.role}
    /\ rolePermissions' = {x \in rolePermissions : x.role # r.role}
    /\ userRoles' = {x \in userRoles : x.role # r.role}
    /\ resp' = Response("role_delete", r.caller, r.role, 204, {})
    /\ UNCHANGED permissions
    /\ UNCHANGED accountVars /\ UNCHANGED memberVars

\* DELETE /permissions/{pk}/
PermissionDelete(caller, pk) ==
    /\ Authenticated(caller)
    /\ UNCHANGED inflight
    /\ IF ~users[caller].is_platform_admin
       THEN /\ resp' = Response("permission_delete", caller, pk, 403, {})
            /\ UNCHANGED db /\ UNCHANGED tokens
       ELSE IF pk \notin PermissionIds
       THEN /\ resp' = Response("permission_delete", caller, pk, 404, {})
            /\ UNCHANGED db /\ UNCHANGED tokens
       ELSE /\ permissions' = {q \in permissions : q.id # pk}
            /\ rolePermissions' = {x \in rolePermissions : x.permission # pk}
            /\ resp' = Response("permission_delete", caller, pk, 204, {})
            /\ UNCHANGED <<roles, userRoles>>
            /\ UNCHANGED accountVars /\ UNCHANGED memberVars

\* RolePermissionSerializer: the related rows exist, and the pair is new
RolePermissionInvalid(d) ==
    \/ d.role \notin RoleIds
    \/ d.permission \notin PermissionIds
    \/ \E x \in rolePermissions : x.role = d.role /\ x.permission = d.permission

\* POST /role-permissions/
RolePermissionCreate(caller, d) ==
    /\ Authenticated(caller)
    /\ UNCHANGED inflight
    /\ IF ~users[caller].is_platform_admin
       THEN /\ resp' = Response("role_permission_create", caller, d, 403, {})
            /\ UNCHANGED db /\ UNCHANGED tokens
       ELSE IF RolePermissionInvalid(d)
       THEN /\ resp' = Response("role_permission_create", caller, d, 400, {})
            /\ UNCHANGED db /\ UNCHANGED tokens
       ELSE /\ Cardinality(rolePermissions) < MaxRolePermissions
            /\ rolePermissions' = rolePermissions \cup
                    {[id |-> FreshId(RolePermissionIds, MaxRolePermissions),
                      role |-> d.role, permission |-> d.permission]}
            /\ resp' = Response("role_permission_create", caller, d, 201,
                                {FreshId(RolePermissionIds, MaxRolePermissions)})
            /\ UNCHANGED <<roles, permissions, userRoles>>
            /\ UNCHANGED accountVars /\ UNCHANGED memberVars

\* DELETE /role-permissions/{pk}/
RolePermissionDelete(caller, pk) ==
    /\ Authenticated(caller)
    /\ UNCHANGED inflight
    /\ IF ~users[caller].is_platform_admin
       THEN /\ resp' = Response("role_permission_delete", caller, pk, 403, {})
            /\ UNCHANGED db /\ UNCHANGED tokens
       ELSE IF pk \notin RolePermissionIds
       THEN /\ resp' = Response("role_permission_delete", caller, pk, 404, {})
            /\ UNCHANGED db /\ UNCHANGED tokens
       ELSE /\ rolePermissions' = {x \in rolePermissions : x.id # pk}
            /\ resp' = Response("role_permission_delete", caller, pk, 204, {})
            /\ UNCHANGED <<roles, permissions, userRoles>>
            /\ UNCHANGED accountVars /\ UNCHANGED memberVars

\* ------------------------------------------------------------- members and visitors
\* GET /members/
MemberListRows(u) == {m \in DOMAIN members : u.church # NULL /\ members[m].church = u.church}

MemberList(caller) ==
    /\ Authenticated(caller)
    /\ UNCHANGED inflight
    /\ resp' = Response("member_list", caller, <<>>, 200, MemberListRows(users[caller]))
    /\ UNCHANGED db /\ UNCHANGED tokens

\* POST /members/ with MemberSerializer.create; church is a read-only field
MemberCreate(caller, d) ==
    /\ Authenticated(caller)
    /\ UNCHANGED inflight
    /\ IF users[caller].church = NULL
       THEN /\ resp' = Response("member_create", caller, d, 400, {})
            /\ UNCHANGED db /\ UNCHANGED tokens
       ELSE /\ Len(members) < MaxMembers
            /\ members' = Append(members, [church |-> users[caller].church,
                                           deleted_at |-> NULL])
            /\ locations' = IF d.location THEN locations \cup {DefaultPk(Len(members))}
                            ELSE locations
            /\ resp' = Response("member_create", caller, d, 201, {DefaultPk(Len(members))})
            /\ UNCHANGED visitors
            /\ UNCHANGED accountVars /\ UNCHANGED rbacVars

\* MemberDetailAPIView.get_object: the member, or NULL
MemberGetObject(pk, u) ==
    IF pk \in DOMAIN members /\ members[pk].deleted_at = NULL
    THEN IF u.is_platform_admin THEN pk
         ELSE IF u.church = members[pk].church THEN pk
         ELSE NULL
    ELSE NULL

\* PUT /members/{pk}/ with MemberSerializer.update: the location is created if missing
MemberUpdate(caller, pk, d) ==
    /\ Authenticated(caller)
    /\ UNCHANGED inflight
    /\ LET arg == [pk |-> pk, location |-> d.location]
       IN  IF MemberGetObject(pk, users[caller]) = NULL
           THEN /\ resp' = Response("member_update", caller, arg, 404, {})
                /\ UNCHANGED db /\ UNCHANGED tokens
           ELSE /\ locations' = IF d.location THEN locations \cup {pk} ELSE locations
                /\ resp' = Response("member_update", caller, arg, 200, {pk})
                /\ UNCHANGED <<members, visitors>>
                /\ UNCHANGED accountVars /\ UNCHANGED rbacVars

\* DELETE /members/{pk}/ (soft delete)
MemberDelete(caller, pk) ==
    /\ Authenticated(caller)
    /\ UNCHANGED inflight
    /\ IF ~users[caller].is_platform_admin
       THEN /\ resp' = Response("member_delete", caller, pk, 403, {})
            /\ UNCHANGED db /\ UNCHANGED tokens
       ELSE IF MemberGetObject(pk, users[caller]) = NULL
       THEN /\ resp' = Response("member_delete", caller, pk, 404, {})
            /\ UNCHANGED db /\ UNCHANGED tokens
       ELSE /\ members' = [members EXCEPT ![pk].deleted_at = TimezoneNow]
            /\ resp' = Response("member_delete", caller, pk, 204, {})
            /\ UNCHANGED <<locations, visitors>>
            /\ UNCHANGED accountVars /\ UNCHANGED rbacVars

\* GET /visitors/
VisitorListRows(u) == {v \in DOMAIN visitors : u.church # NULL /\ visitors[v].church = u.church}

VisitorList(caller) ==
    /\ Authenticated(caller)
    /\ UNCHANGED inflight
    /\ resp' = Response("visitor_list", caller, <<>>, 200, VisitorListRows(users[caller]))
    /\ UNCHANGED db /\ UNCHANGED tokens

\* POST /visitors/ with VisitorSerializer.create
VisitorCreate(caller, d) ==
    /\ Authenticated(caller)
    /\ UNCHANGED inflight
    /\ IF users[caller].church = NULL
       THEN /\ resp' = Response("visitor_create", caller, d, 400, {})
            /\ UNCHANGED db /\ UNCHANGED tokens
       ELSE /\ Len(visitors) < MaxVisitors
            /\ visitors' = Append(visitors, [church |-> users[caller].church,
                                             converted_to_member |-> FALSE])
            /\ resp' = Response("visitor_create", caller, d, 201, {DefaultPk(Len(visitors))})
            /\ UNCHANGED <<members, locations>>
            /\ UNCHANGED accountVars /\ UNCHANGED rbacVars

\* VisitorToMemberSerializer.validate_visitor_id
VisitorIdInvalid(visitor_id) ==
    \/ visitor_id \notin DOMAIN visitors
    \/ visitors[visitor_id].converted_to_member

\* a failed create that keeps the rows written before the exception
SavepointKept(before, written) == written
\* transaction.atomic around create: an exception undoes the rows written so far
SavepointRollback(before, written) == before

\* VisitorToMemberSerializer.create and the response of VisitorToMemberView.post;
\* raises names the statement of create that raises a database error, or is "none"
VisitorConvertSave(caller, visitor_id, raises) ==
    LET pk == DefaultPk(Len(members))
        before == <<members, locations, visitors>>
        m1 == Append(members, [church |-> users[caller].church, deleted_at |-> NULL])
        l1 == locations \cup {pk}
        v1 == [visitors EXCEPT ![visitor_id].converted_to_member = TRUE]
        written == IF raises = "member" THEN before
                   ELSE IF raises = "location" THEN <<m1, locations, visitors>>
                   ELSE <<m1, l1, visitors>>
    IN  IF users[caller].church = NULL
        THEN /\ resp' = Response("visitor_convert", caller, visitor_id, 400, {})
             /\ UNCHANGED db /\ UNCHANGED tokens
        ELSE IF raises # "none"
        THEN /\ Len(members) < MaxMembers
             /\ resp' = Response("visitor_convert", caller, visitor_id, 400, {})
             /\ members' = SavepointRollback(before, written)[1]
             /\ locations' = SavepointRollback(before, written)[2]
             /\ visitors' = SavepointRollback(before, written)[3]
             /\ UNCHANGED accountVars /\ UNCHANGED rbacVars
        ELSE /\ Len(members) < MaxMembers
             /\ members' = m1
             /\ locations' = l1
             /\ visitors' = v1
             /\ resp' = Response("visitor_convert", caller, visitor_id, 201, {pk})
             /\ UNCHANGED accountVars /\ UNCHANGED rbacVars

\* POST /visitors/convert/ handled without another request in between
VisitorConvert(caller, visitor_id, raises) ==
    /\ Authenticated(caller)
    /\ UNCHANGED inflight
    /\ IF VisitorIdInvalid(visitor_id)
       THEN /\ resp' = Response("visitor_convert", caller, visitor_id, 400, {})
            /\ UNCHANGED db /\ UNCHANGED tokens
       ELSE VisitorConvertSave(caller, visitor_id, raises)

\* POST /visitors/convert/ in two steps, so that requests interleave:
\* serializer.is_valid() has accepted the request, serializer.save() has not run
VisitorConvertIsValid(caller, visitor_id) ==
    /\ Authenticated(caller)
    /\ ~VisitorIdInvalid(visitor_id)
    /\ Cardinality(inflight) < MaxInflight
    /\ inflight' = inflight \cup {[caller |-> caller, visitor_id |-> visitor_id]}
    /\ UNCHANGED db /\ UNCHANGED tokens /\ UNCHANGED resp

\* serializer.save() of a conversion that is_valid() accepted
VisitorConvertCreate(r) ==
    /\ Idle
    /\ r \in inflight
    /\ inflight' = inflight \ {r}
    /\ VisitorConvertSave(r.caller, r.visitor_id, "none")

\* ------------------------------------------------------------- requests
\* the username a request supplies: a name no row holds yet
FreshUsername == CHOOSE n \in 1..(MaxUsers + 1) :
                    /\ \A i \in DOMAIN users : users[i].username # n
                    /\ \A m \in 1..(n - 1) : \E i \in DOMAIN users : users[i].username = m

UserCreateData(username, email, password, church) ==
    [username |-> username, email |-> email, password |-> password,
     password_confirm |-> password, church |-> church, is_active |-> TRUE]

UserUpdateData == {[email |-> "a@b.com"], [is_active |-> FALSE]}

Callers == DOMAIN users
MaybeChurch == ChurchIds \cup {NULL}
AnyUser == 1..MaxUsers

\* ------------------------------------------------------------- accounts and tenants
Next ==
    \/ EndRequest
    \/ \E e \in Emails : CreatePlatformAdmin(FreshUsername, e, "longpass1")
    \/ \E e \in Emails : Register(FreshUsername, e, "longpass1")
    \/ \E e \in Emails, c \in MaybeChurch : Login(e, "longpass1", c)
    \/ \E c \in Callers : ChurchCreate(c, "ACTIVE")
    \/ \E c \in Callers, pk \in ChurchIds : ChurchDelete(c, pk)
    \/ \E c \in Callers, e \in Emails, ch \in MaybeChurch :
          UserCreate(c, UserCreateData(FreshUsername, e, "longpass1", ch))
    \/ \E c \in Callers, pk \in AnyUser, d \in UserUpdateData : UserUpdate(c, pk, d)
    \/ \E c \in Callers, pk \in AnyUser : UserDelete(c, pk)

Spec == Init /\ [][Next]_vars

\* ------------------------------------------------------------- authentication
NextAuth ==
    \/ EndRequest
    \/ \E e \in Emails, p \in Passwords : CreatePlatformAdmin(FreshUsername, e, p)
    \/ \E e \in Emails, p \in Passwords : Register(FreshUsername, e, p)
    \/ \E e \in Emails, p \in Passwords, c \in MaybeChurch : Login(e, p, c)
    \/ \E c \in Callers, e \in Emails, p \in Passwords, ch \in ChurchIds, a \in BOOLEAN :
          UserCreate(c, [UserCreateData(FreshUsername, e, p, ch) EXCEPT !.is_active = a])

    \/ \E c \in Callers, pk \in AnyUser : UserDelete(c, pk)
    \/ \E c \in Callers, pk \in AnyUser, a \in BOOLEAN : UserUpdate(c, pk, [is_active |-> a])
    \/ \E c \in Callers, old \in Passwords, new \in Passwords \cup {ShortPassword},
          confirm \in Passwords :
          ChangePassword(c, old, new, confirm)

SpecAuth == Init /\ [][NextAuth]_vars

\* ------------------------------------------------------------- tenant isolation
AdminEmail == "admin@x.com"

UserRoleRequests ==
    [user : AnyUser, role : 1..MaxRoles, church : ChurchIds]

NextTenancy ==
    \/ EndRequest
    \/ CreatePlatformAdmin(FreshUsername, AdminEmail, "longpass1")
    \/ \E e \in Emails : Register(FreshUsername, e, "longpass1")
    \/ \E c \in MaybeChurch : Login(AdminEmail, "longpass1", c)
    \/ \E c \in Callers, n \in {FreshUsername, AnonymousUser}, ch \in ChurchIds :
          UserCreate(c, UserCreateData(n, "a@b.com", "longpass1", ch))
    \/ \E c \in Callers : RoleCreate(c, "Pastor")
    \/ \E c \in Callers : PermissionCreate(c, "members.view_all")
    \/ \E c \in Callers, d \in UserRoleRequests : UserRoleCreate(c, d)
    \/ \E c \in Callers, pk \in 1..MaxUserRoles : UserRoleDelete(c, pk)
    \/ \E c \in Callers, ch \in ChurchIds : MemberCreate(c, [church |-> ch, location |-> TRUE])
    \/ \E c \in Callers : VisitorCreate(c, <<>>)
    \/ \E c \in Callers, v \in 1..MaxVisitors : VisitorConvert(c, v, "none")
    \/ \E c \in Callers : ChurchList(c)
    \/ \E c \in Callers, ch \in MaybeChurch : UserList(c, ch, NULL)
    \/ \E c \in Callers, ch \in MaybeChurch : UserRoleList(c, NULL, NULL, ch)
    \/ \E c \in Callers : MemberList(c)
    \/ \E c \in Callers : VisitorList(c)

SpecTenancy == Init /\ [][NextTenancy]_vars

\* ------------------------------------------------------------- roles and assignments
RolePermissionRequests == [role : 1..MaxRoles, permission : 1..MaxPermissions]

NextRbac ==
    \/ EndRequest
    \/ CreatePlatformAdmin(FreshUsername, AdminEmail, "longpass1")
    \/ \E e \in Emails, n \in {FreshUsername, AnonymousUser} : Register(n, e, "longpass1")
    \/ \E c \in MaybeChurch : Login(AdminEmail, "longpass1", c)
    \/ \E c \in Callers, pk \in AnyUser : UserUpdate(c, pk, [username |-> AnonymousUser])
    \/ \E c \in Callers : RoleCreate(c, "Pastor")
    \/ \E c \in Callers, pk \in 1..MaxRoles : RoleDelete(c, pk)
    \/ \E c \in Callers : PermissionCreate(c, "members.view_all")
    \/ \E c \in Callers, pk \in 1..MaxPermissions : PermissionDelete(c, pk)
    \/ \E c \in Callers, d \in RolePermissionRequests : RolePermissionCreate(c, d)
    \/ \E c \in Callers, pk \in 1..MaxRolePermissions : RolePermissionDelete(c, pk)
    \/ \E c \in Callers, d \in UserRoleRequests : UserRoleCreate(c, d)
    \/ \E c \in Callers, pk \in 1..MaxUserRoles : UserRoleDelete(c, pk)

SpecRbac == Init /\ [][NextRbac]_vars

\* ------------------------------------------------------------- role deletion and assignments
RoleDeleteRequests == [caller : AnyUser, role : 1..MaxRoles]

NextRoleDelete ==
    \/ EndRequest
    \/ CreatePlatformAdmin(FreshUsername, AdminEmail, "longpass1")
    \/ Register(FreshUsername, "a@b.com", "longpass1")
    \/ Login(AdminEmail, "longpass1", NULL)
    \/ \E c \in Callers : RoleCreate(c, "Pastor")
    \/ \E c \in Callers, pk \in 1..MaxRoles : RoleDelete(c, pk)
    \/ \E r \in RoleDeleteRequests : RoleDeleteCheck(r.caller, r.role)
    \/ \E r \in RoleDeleteRequests : RoleDeleteCommit(r)
    \/ \E c \in Callers, d \in UserRoleRequests : UserRoleCreate(c, d)
    \/ \E c \in Callers, pk \in 1..MaxUserRoles : UserRoleDelete(c, pk)

SpecRoleDelete == Init /\ [][NextRoleDelete]_vars

\* ------------------------------------------------------------- onboarding
RegisterRequests ==
    [username : {1, 2, AnonymousUser}, email : Emails, password : {"longpass1"}]

NextOnboarding ==
    \/ EndRequest
    \/ CreatePlatformAdmin(FreshUsername, AdminEmail, "longpass1")
    \/ \E c \in MaybeChurch : Login(AdminEmail, "longpass1", c)
    \/ \E c \in Callers : RoleCreate(c, "Pastor")
    \/ \E r \in RegisterRequests, p \in {"longpass1", "short"} :
          Register(r.username, r.email, p)
    \/ \E r \in RegisterRequests : RegisterIsValid(r.username, r.email, r.password)
    \/ \E r \in RegisterRequests : RegisterCreate(r)

SpecOnboarding == Init /\ [][NextOnboarding]_vars

\* ------------------------------------------------------------- soft deletion and reads
NextReads ==
    \/ EndRequest
    \/ CreatePlatformAdmin(FreshUsername, AdminEmail, "longpass1")
    \/ \E e \in Emails : Register(FreshUsername, e, "longpass1")
    \/ \E c \in MaybeChurch : Login(AdminEmail, "longpass1", c)
    \/ \E c \in Callers : MemberCreate(c, [church |-> NULL, location |-> FALSE])
    \/ \E c \in Callers, pk \in 1..MaxMembers : MemberDelete(c, pk)
    \/ \E c \in Callers, pk \in AnyUser : UserDelete(c, pk)
    \/ \E c \in Callers, pk \in ChurchIds : ChurchDelete(c, pk)
    \/ \E c \in Callers : ChurchList(c)
    \/ \E c \in Callers : UserList(c, NULL, NULL)
    \/ \E c \in Callers : MemberList(c)

SpecReads == Init /\ [][NextReads]_vars

\* ------------------------------------------------------------- soft deletion and writes
NextDeletion ==
    \/ EndRequest
    \/ CreatePlatformAdmin(FreshUsername, AdminEmail, "longpass1")
    \/ Register(FreshUsername, "c@d.com", "longpass1")
    \/ Login(AdminEmail, "longpass1", NULL)
    \/ \E c \in Callers, pk \in ChurchIds : ChurchUpdate(c, pk, "SUSPENDED")
    \/ \E c \in Callers, pk \in ChurchIds : ChurchDelete(c, pk)
    \/ \E c \in Callers, pk \in AnyUser : UserUpdate(c, pk, [email |-> "a@b.com"])
    \/ \E c \in Callers, pk \in AnyUser : UserDelete(c, pk)
    \/ \E c \in Callers : MemberCreate(c, [church |-> NULL, location |-> FALSE])
    \/ \E c \in Callers, pk \in 1..MaxMembers : MemberUpdate(c, pk, [location |-> TRUE])
    \/ \E c \in Callers, pk \in 1..MaxMembers : MemberDelete(c, pk)

SpecDeletion == Init /\ [][NextDeletion]_vars

\* ------------------------------------------------------------- church context of a request
ChurchIdTexts == ChurchIds \cup {NULL, NotUuid}

NextContext ==
    \/ EndRequest
    \/ CreatePlatformAdmin(FreshUsername, AdminEmail, "longpass1")
    \/ \E e \in Emails : Register(FreshUsername, e, "longpass1")
    \/ \E c \in MaybeChurch : Login(AdminEmail, "longpass1", c)
    \/ \E u \in Callers \cup {AnonymousUser}, q \in ChurchIdTexts, h \in ChurchIdTexts :
          ProcessRequest(u, q, h)

SpecContext == Init /\ [][NextContext]_vars

\* ------------------------------------------------------------- conversions
ConvertRequests == [caller : AnyUser, visitor_id : 1..MaxVisitors]

NextMembers ==
    \/ EndRequest
    \/ CreatePlatformAdmin(FreshUsername, AdminEmail, "longpass1")
    \/ \E e \in Emails : Register(FreshUsername, e, "longpass1")
    \/ \E c \in MaybeChurch : Login(AdminEmail, "longpass1", c)
    \/ \E c \in Callers : MemberCreate(c, [church |-> NULL, location |-> TRUE])
    \/ \E c \in Callers : VisitorCreate(c, <<>>)
    \/ \E c \in Callers, v \in 1..(MaxVisitors + 1), x \in {"none", "member", "location", "visitor"} :
          VisitorConvert(c, v, x)
    \/ \E r \in ConvertRequests : VisitorConvertIsValid(r.caller, r.visitor_id)
    \/ \E r \in ConvertRequests : VisitorConvertCreate(r)

SpecMembers == Init /\ [][NextMembers]_vars

\* ============================================================= claims
TenantScoped(i) == i \in DOMAIN users /\ IsTenantScoped(users[i])
SuperScope(i) == i \in DOMAIN users /\ users[i].is_platform_admin

\* the active accounts that hold these credentials
ActiveWith(email, password) ==
    {i \in DOMAIN users : /\ users[i].email = email
                          /\ users[i].password = MakePassword(password)
                          /\ users[i].is_active}

\* C1: a list query of a tenant-scoped account (tenants, accounts, assignments,
\* members, visitors) returns only rows of the account's own tenant, and returns
\* the same rows whether or not a church_id parameter names another tenant.
C1_ListsOwnTenant ==
    (/\ resp.op \in {"church_list", "user_list", "user_role_list",
                     "member_list", "visitor_list"}
     /\ TenantScoped(resp.caller))
        => LET u == users[resp.caller]
           IN  /\ resp.status = 200
               /\ resp.op = "church_list" => resp.out \subseteq {u.church}
               /\ resp.op = "user_list" =>
                     /\ \A i \in resp.out : users[i].church = u.church
                     /\ resp.out = UserListRows(u, NULL, resp.arg.is_active)
               /\ resp.op = "user_role_list" =>
                     /\ \A x \in resp.out : x.church = u.church
                     /\ resp.out = UserRoleListRows(u, resp.arg.user_id,
                                                    resp.arg.role_id, NULL)
               /\ resp.op = "member_list" =>
                     \A m \in resp.out : members[m].church = u.church
               /\ resp.op = "visitor_list" =>
                     \A v \in resp.out : visitors[v].church = u.church

\* an assignment list asked with another tenant's church_id, which has assignments
C1_Witness ==
    /\ resp.op = "user_role_list"
    /\ TenantScoped(resp.caller)
    /\ resp.arg.church_id \in DOMAIN churches
    /\ resp.arg.church_id # users[resp.caller].church
    /\ \E x \in userRoles : x.church = resp.arg.church_id
    /\ resp.out # {}

\* C2: an operation of a tenant-scoped account leaves every account, member,
\* visitor and assignment of another tenant unchanged, and a conversion it asks
\* for succeeds only on a visitor of its own tenant.
C2_OtherTenantsUnchanged ==
    [][TenantScoped(resp'.caller) =>
        LET T == users[resp'.caller].church
        IN  /\ \A i \in DOMAIN users :
                  users[i].church \notin {T, NULL} =>
                      i \in DOMAIN users' /\ users'[i] = users[i]
            /\ \A m \in DOMAIN members :
                  members[m].church # T =>
                      m \in DOMAIN members' /\ members'[m] = members[m]
            /\ \A v \in DOMAIN visitors :
                  visitors[v].church # T =>
                      v \in DOMAIN visitors' /\ visitors'[v] = visitors[v]
            /\ {x \in userRoles : x.church # T} = {x \in userRoles' : x.church # T}
            /\ (resp'.op = "visitor_convert" /\ resp'.status = 201)
                  => visitors[resp'.arg].church = T]_vars

\* C3: every account is either super-scope with a null tenant, or tenant-scoped
\* with a non-null reference to one tenant.
C3_ScopeExactlyOne ==
    \A i \in DOMAIN users :
        \/ users[i].is_platform_admin /\ users[i].church = NULL
        \/ ~users[i].is_platform_admin /\ users[i].church \in DOMAIN churches

\* C4: an active super-scope account's email and password log it in, and return
\* that account, with every tenant identifier and with none.
C4_SuperScopeLogin ==
    resp.op = "login" =>
        \A a \in ActiveWith(resp.arg.email, resp.arg.password) :
            SuperScope(a) => resp.status = 200 /\ resp.out = {a}

C4_Witness ==
    /\ resp.op = "login"
    /\ resp.status = 200
    /\ resp.arg.church_id \in DOMAIN churches
    /\ \E a \in resp.out : SuperScope(a)
    /\ \E b \in DOMAIN users : TenantScoped(b) /\ users[b].email = resp.arg.email

\* C5 (as stated): a tenant-scoped account's credentials with its own tenant
\* return that account, and with any other tenant they fail.
C5_Original ==
    resp.op = "login" =>
        \A a \in ActiveWith(resp.arg.email, resp.arg.password) :
            TenantScoped(a) =>
                /\ resp.arg.church_id = users[a].church
                      => resp.status = 200 /\ resp.out = {a}
                /\ resp.arg.church_id \notin {users[a].church, NULL}
                      => resp.status = 400

\* C5 (amended): with its own tenant the credentials return the account, unless an
\* active super-scope account holds the same email and password, which is then
\* returned; with another tenant they never return the account, and fail unless an
\* active account with the same email and password is super-scope or bound to
\* that tenant, which is then returned.
C5_TenantLogin ==
    resp.op = "login" =>
        \A a \in ActiveWith(resp.arg.email, resp.arg.password) :
            TenantScoped(a) =>
                LET same == ActiveWith(resp.arg.email, resp.arg.password)
                    super == {s \in same : SuperScope(s)}
                    there == {b \in same : /\ TenantScoped(b)
                                           /\ users[b].church = resp.arg.church_id}
                IN  /\ resp.arg.church_id = users[a].church
                       => /\ resp.status = 200
                          /\ resp.out = IF super # {} THEN super ELSE {a}
                    /\ resp.arg.church_id \notin {users[a].church, NULL}
                       => /\ a \notin resp.out
                          /\ IF super # {} THEN resp.status = 200 /\ resp.out = super
                             ELSE IF there # {} THEN resp.status = 200 /\ resp.out = there
                             ELSE resp.status = 400 /\ resp.out = {}

\* a login with another tenant's identifier, under which the email exists too
C5_Witness ==
    /\ resp.op = "login"
    /\ resp.status = 400
    /\ \E a \in ActiveWith(resp.arg.email, resp.arg.password) :
          /\ TenantScoped(a)
          /\ resp.arg.church_id \notin {users[a].church, NULL}
          /\ \E b \in DOMAIN users : /\ users[b].email = resp.arg.email
                                     /\ users[b].church = resp.arg.church_id
                                     /\ users[b].is_active

C7_DeleteOnlySuperScope ==
    (/\ resp.op \in {"user_delete", "church_delete", "role_delete", "permission_delete"}
     /\ resp.status = 204)
        => users[resp.caller].is_platform_admin

\* C8: a request of an account to delete its own record fails and leaves every
\* account as it was.
C8_SelfDeleteFails ==
    [][(resp'.op = "user_delete" /\ resp'.arg = resp'.caller)
          => resp'.status # 204 /\ users' = users]_vars

C8_Witness ==
    /\ resp.op = "user_delete"
    /\ resp.arg = resp.caller
    /\ resp.status = 400
    /\ SuperScope(resp.caller)
    /\ \E t \in DOMAIN users : TenantScoped(t) /\ t \in tokens

\* C9: a mutation of roles, permissions, role-permission rows or assignments
\* succeeds only for a super-scope caller, except the creation of an assignment,
\* which a tenant-scoped account may do within its own tenant.
C9_RbacMutationsSuperScope ==
    (resp.caller \in DOMAIN users /\ resp.status \in {200, 201, 204}) =>
        /\ resp.op \in {"role_create", "role_update", "role_delete",
                        "permission_create", "permission_update", "permission_delete",
                        "role_permission_create", "role_permission_delete",
                        "user_role_delete"}
              => SuperScope(resp.caller)
        /\ resp.op = "user_role_create"
              => \/ SuperScope(resp.caller)
                 \/ TenantScoped(resp.caller)
                       /\ resp.arg.church = users[resp.caller].church

\* C10: a creation of an account, an assignment or a member that a tenant-scoped
\* account asks for another tenant is refused as forbidden and creates nothing,
\* and every row such an account creates is owned by its own tenant.
C10_CreateInOwnTenant ==
    [][(/\ resp'.op \in {"user_create", "user_role_create", "member_create"}
        /\ TenantScoped(resp'.caller))
          => LET T == users[resp'.caller].church
             IN  /\ (resp'.arg.church \in DOMAIN churches /\ resp'.arg.church # T)
                       => resp'.status = 403 /\ UNCHANGED db
                 /\ \A i \in DOMAIN users' \ DOMAIN users : users'[i].church = T
                 /\ \A x \in userRoles' \ userRoles : x.church = T
                 /\ \A m \in DOMAIN members' \ DOMAIN members :
                       members'[m].church = T]_vars

\* C11: a list query of a super-scope account returns the rows of every tenant
\* when it names no tenant, and exactly the rows of the tenant it names.
C11_SuperScopeLists ==
    (/\ resp.op \in {"church_list", "user_list", "user_role_list",
                     "member_list", "visitor_list"}
     /\ SuperScope(resp.caller))
        => /\ resp.status = 200
           /\ resp.op = "church_list" =>
                 resp.out = {c \in DOMAIN churches : churches[c].deleted_at = NULL}
           /\ resp.op = "user_list" =>
                 resp.out = {i \in DOMAIN users :
                               /\ users[i].deleted_at = NULL
                               /\ resp.arg.church_id # NULL
                                     => users[i].church = resp.arg.church_id
                               /\ resp.arg.is_active # NULL
                                     => users[i].is_active = (resp.arg.is_active = "true")}
           /\ resp.op = "user_role_list" =>
                 resp.out = {x \in userRoles :
                               /\ resp.arg.church_id # NULL => x.church = resp.arg.church_id
                               /\ resp.arg.user_id # NULL => x.user = resp.arg.user_id
                               /\ resp.arg.role_id # NULL => x.role = resp.arg.role_id}
           /\ resp.op = "member_list" =>
                 {m \in DOMAIN members : members[m].deleted_at = NULL} \subseteq resp.out
           /\ resp.op = "visitor_list" => resp.out = DOMAIN visitors

\* C12: the tenant of every account-role assignment is the tenant of the
\* assignment's account, however the assignment was created and whatever updates
\* the account received.
C12_AssignmentTenant ==
    \A x \in userRoles :
        x.user \in DOMAIN users /\ x.church = users[x.user].church

\* C13 (as stated): the creation of an assignment whose tenant is not the tenant
\* of its account fails with a validation error for every caller, and creates
\* nothing.
C13_Original ==
    [][(/\ resp'.op = "user_role_create"
        /\ resp'.arg.user \in DOMAIN users
        /\ resp'.arg.church \in DOMAIN churches
        /\ resp'.arg.church # users[resp'.arg.user].church)
          => resp'.status = 400 /\ userRoles' = userRoles]_vars

\* C13 (amended): such a creation creates nothing; it is refused as forbidden
\* when the caller is not super-scope and the assignment's tenant is not the
\* caller's, and fails with a validation error for every other caller.
C13_CrossTenantAssignment ==
    [][(/\ resp'.op = "user_role_create"
        /\ resp'.arg.user \in DOMAIN users
        /\ resp'.arg.church \in DOMAIN churches
        /\ resp'.arg.church # users[resp'.arg.user].church)
          => /\ userRoles' = userRoles
             /\ resp'.status =
                  IF /\ ~SuperScope(resp'.caller)
                     /\ users[resp'.caller].church # resp'.arg.church
                  THEN 403 ELSE 400]_vars

\* a caller of the assignment's tenant names a role and an account of another tenant
C13_Witness ==
    /\ resp.op = "user_role_create"
    /\ resp.status = 400
    /\ TenantScoped(resp.caller)
    /\ users[resp.caller].church = resp.arg.church
    /\ resp.arg.role \in RoleIds
    /\ TenantScoped(resp.arg.user)
    /\ users[resp.arg.user].church # resp.arg.church

\* C14: a creation of an assignment whose (account, role, tenant) exists, asked
\* by a caller that may assign in that tenant, is rejected and changes nothing;
\* no two assignments share a triple and no two role-permission rows a pair.
C14_UniqueAssignments ==
    [][/\ \A x \in userRoles', y \in userRoles' :
              (x.user = y.user /\ x.role = y.role /\ x.church = y.church) => x = y
       /\ \A x \in rolePermissions', y \in rolePermissions' :
              (x.role = y.role /\ x.permission = y.permission) => x = y
       /\ (/\ resp'.op = "user_role_create"
           /\ \E x \in userRoles : /\ x.user = resp'.arg.user
                                   /\ x.role = resp'.arg.role
                                   /\ x.church = resp'.arg.church
           /\ \/ SuperScope(resp'.caller)
              \/ users[resp'.caller].church = resp'.arg.church)
             => resp'.status = 400 /\ UNCHANGED db
       /\ (/\ resp'.op = "role_permission_create"
           /\ SuperScope(resp'.caller)
           /\ \E x \in rolePermissions : /\ x.role = resp'.arg.role
                                         /\ x.permission = resp'.arg.permission)
             => resp'.status = 400 /\ UNCHANGED db]_vars

\* an assignment that exists is asked for again by an account of its tenant
C14_Witness ==
    /\ resp.op = "user_role_create"
    /\ resp.status = 400
    /\ TenantScoped(resp.caller)
    /\ \E x \in userRoles : /\ x.user = resp.arg.user
                            /\ x.role = resp.arg.role
                            /\ x.church = resp.arg.church
                            /\ x.church = users[resp.caller].church

\* C15: the deletion of a role that an assignment references is rejected and
\* leaves the role and the assignments as they were; the deletion of a role that
\* no assignment references succeeds.
C15_RoleDeleteInUse ==
    [][(/\ resp'.op = "role_delete"
        /\ SuperScope(resp'.caller)
        /\ \E r \in roles : r.id = resp'.arg)
          => IF \E x \in userRoles : x.role = resp'.arg
             THEN /\ resp'.status = 400
                  /\ roles' = roles
                  /\ userRoles' = userRoles
                  /\ rolePermissions' = rolePermissions
             ELSE /\ resp'.status = 204
                  /\ \A r \in roles' : r.id # resp'.arg
                  /\ userRoles' = userRoles]_vars

\* a role with an assignment, whose deletion a platform admin asked for
C15_Witness ==
    /\ resp.op = "role_delete"
    /\ resp.status = 400
    /\ \E x \in userRoles : x.role = resp.arg /\ TenantScoped(x.user)

\* C16: an onboarding request creates exactly one tenant in trial status together
\* with exactly one tenant-scoped account bound to that tenant, or it creates
\* nothing and no row of it remains.
C16_OnboardingAllOrNothing ==
    [][resp'.op = "register" =>
        \/ /\ resp'.status = 201
           /\ churches' = Append(churches, [status |-> "TRIAL", deleted_at |-> NULL])
           /\ Len(users') = Len(users) + 1
           /\ \A i \in DOMAIN users : users'[i] = users[i]
           /\ ~users'[Len(users')].is_platform_admin
           /\ users'[Len(users')].church = Len(churches')
           /\ \A x \in userRoles' \ userRoles :
                 x.user = Len(users') /\ x.church = Len(churches')
        \/ /\ resp'.status # 201
           /\ UNCHANGED db]_vars

\* C17: an onboarding request that arrives when an existing account uses its
\* admin email is rejected and creates no tenant, and no two tenant-scoped
\* accounts, all of which onboarding created, share an email, however the
\* requests interleave.
C17_OnboardingEmailUnique ==
    [][/\ (/\ resp'.op = "register"
           /\ resp'.arg \notin inflight
           /\ \E i \in DOMAIN users : users[i].email = resp'.arg.email)
             => resp'.status = 400 /\ UNCHANGED db
       /\ \A i \in DOMAIN users', j \in DOMAIN users' :
             (/\ i # j
              /\ ~users'[i].is_platform_admin
              /\ ~users'[j].is_platform_admin)
                => users'[i].email # users'[j].email]_vars

\* C18: the creation of a second account with the (email, tenant) of a
\* tenant-scoped account fails and changes no account, so does the creation of a
\* second super-scope account with the email of a super-scope account; emails
\* are unique per tenant among tenant-scoped accounts and unique among
\* super-scope accounts.
C18_EmailUniqueness ==
    [][/\ \A i \in DOMAIN users', j \in DOMAIN users' :
              i # j =>
                 /\ (/\ ~users'[i].is_platform_admin /\ ~users'[j].is_platform_admin
                     /\ users'[i].church # NULL
                     /\ users'[i].church = users'[j].church)
                       => users'[i].email # users'[j].email
                 /\ (users'[i].is_platform_admin /\ users'[j].is_platform_admin)
                       => users'[i].email # users'[j].email
       /\ (/\ resp'.op = "user_create"
           /\ \E i \in DOMAIN users : /\ TenantScoped(i)
                                      /\ users[i].email = resp'.arg.email
                                      /\ users[i].church = resp'.arg.church)
             => resp'.status # 201 /\ users' = users
       /\ (/\ resp'.op = "create_platform_admin"
           /\ \E i \in DOMAIN users : /\ SuperScope(i)
                                      /\ users[i].email = resp'.arg.email)
             => resp'.status # 201 /\ users' = users]_vars

\* an account is asked for with the email of an account of the same tenant,
\* while another tenant holds an account with that email
C18_Witness ==
    /\ resp.op = "user_create"
    /\ resp.status = 400
    /\ \E i \in DOMAIN users : /\ TenantScoped(i)
                               /\ users[i].email = resp.arg.email
                               /\ users[i].church = resp.arg.church
    /\ \E j \in DOMAIN users : /\ TenantScoped(j)
                               /\ users[j].email = resp.arg.email
                               /\ users[j].church # resp.arg.church

\* the deleted accounts that hold these credentials in this tenant
DeletedWith(email, password, church_id) ==
    {i \in DOMAIN users : /\ users[i].deleted_at # NULL
                          /\ users[i].email = email
                          /\ users[i].password = MakePassword(password)
                          /\ users[i].church = church_id}

\* C19 (as stated): a deleted account is inactive with its deletion time set,
\* it stays so, and every login with its email, password and tenant fails.
C19_Original ==
    [][/\ \A i \in DOMAIN users' :
              users'[i].deleted_at # NULL => ~users'[i].is_active
       /\ \A i \in DOMAIN users :
              users[i].deleted_at # NULL => users'[i].deleted_at # NULL
       /\ (/\ resp'.op = "login"
           /\ DeletedWith(resp'.arg.email, resp'.arg.password,
                          resp'.arg.church_id) # {})
             => resp'.status = 400]_vars

\* C19 (amended): a deleted account is inactive with its deletion time set, it
\* stays so, and no login returns it; a login with its email, password and
\* tenant fails unless an active super-scope account holds that email and
\* password, and then returns that super-scope account.
C19_DeletedCannotLogin ==
    [][/\ \A i \in DOMAIN users' :
              users'[i].deleted_at # NULL => ~users'[i].is_active
       /\ \A i \in DOMAIN users :
              users[i].deleted_at # NULL => users'[i].deleted_at # NULL
       /\ resp'.op = "login" =>
              \A i \in resp'.out : users[i].deleted_at = NULL
       /\ (/\ resp'.op = "login"
           /\ DeletedWith(resp'.arg.email, resp'.arg.password,
                          resp'.arg.church_id) # {})
             => LET super == {a \in ActiveWith(resp'.arg.email, resp'.arg.password) :
                                 SuperScope(a)}
                IN  IF super = {} THEN resp'.status = 400 /\ resp'.out = {}
                    ELSE resp'.status = 200 /\ resp'.out = super]_vars

\* a login with the credentials and tenant of a deleted tenant-scoped account
C19_Witness ==
    /\ resp.op = "login"
    /\ resp.status = 400
    /\ \E i \in DeletedWith(resp.arg.email, resp.arg.password, resp.arg.church_id) :
          /\ ~users[i].is_platform_admin
          /\ users[i].last_login # NULL

\* C20: a list of tenants, accounts or members returns only rows whose deletion
\* time is null: a soft-deleted record is in no later list.
C20_ReadsSkipDeleted ==
    /\ resp.op = "church_list" => \A c \in resp.out : churches[c].deleted_at = NULL
    /\ resp.op = "user_list" => \A i \in resp.out : users[i].deleted_at = NULL
    /\ resp.op = "member_list" => \A m \in resp.out : members[m].deleted_at = NULL

\* C21: a conversion writes a member, its location and the visitor's converted
\* flag together, or writes none of them; a conversion of a visitor whose flag
\* is set, handled with no other request in between, fails and creates nothing.
C21_ConversionAllOrNothing ==
    [][resp'.op = "visitor_convert" =>
        /\ \/ /\ resp'.status = 201
              /\ Len(members') = Len(members) + 1
              /\ \A m \in DOMAIN members : members'[m] = members[m]
              /\ locations' = locations \cup {Len(members')}
              /\ visitors' = [visitors EXCEPT ![resp'.arg].converted_to_member = TRUE]
           \/ /\ resp'.status = 400
              /\ members' = members
              /\ locations' = locations
              /\ visitors' = visitors
        /\ (/\ [caller |-> resp'.caller, visitor_id |-> resp'.arg] \notin inflight
            /\ resp'.arg \in DOMAIN visitors
            /\ visitors[resp'.arg].converted_to_member)
              => resp'.status = 400]_vars

\* a conversion of a visitor that is not converted, by an account of a tenant,
\* has failed: a statement of create raised, and the visitor is still not converted
C21_Witness ==
    /\ resp.op = "visitor_convert"
    /\ resp.status = 400
    /\ TenantScoped(resp.caller)
    /\ resp.arg \in DOMAIN visitors
    /\ ~visitors[resp.arg].converted_to_member
    /\ \E v \in DOMAIN visitors : visitors[v].converted_to_member

\* C29: however two conversion requests for one visitor interleave, a member is
\* created only from a visitor whose converted flag is not set, so at most one
\* member is created from a visitor.
C29_ConcurrentConversions ==
    [][(resp'.op = "visitor_convert" /\ resp'.status = 201)
          => ~visitors[resp'.arg].converted_to_member]_vars

\* C22: for a caller bound to a tenant, a conversion naming a visitor of another
\* tenant has the outcome of a conversion naming a visitor that does not exist:
\* it fails with status 400 and writes nothing.
C22_OtherTenantAsMissing ==
    [][(/\ resp'.op = "visitor_convert"
        /\ TenantScoped(resp'.caller)
        /\ resp'.arg \in DOMAIN visitors
        /\ visitors[resp'.arg].church # users[resp'.caller].church)
          => /\ resp'.status = 400
             /\ UNCHANGED db]_vars

C24_BothBranches ==
    \A email \in Emails \cup {AdminEmail}, password \in Passwords, church_id \in MaybeChurch :
        \A a \in DOMAIN users :
            (/\ users[a].is_platform_admin
             /\ users[a].is_active
             /\ users[a].email = email) =>
                /\ users[a].password = MakePassword(password)
                      => /\ authenticate(email, password, church_id) # NULL
                         /\ users[authenticate(email, password, church_id)].is_platform_admin
                /\ users[a].password # MakePassword(password)
                      => \A i \in DOMAIN users :
                            (/\ i \in ChurchUsersWith(email, church_id)
                             /\ users[i].password = MakePassword(password)
                             /\ church_id # NULL)
                                => authenticate(email, password, church_id) = i

\* a login was answered with a tenant-scoped account while an active super-scope
\* account has the same email and another password
C24_Witness ==
    /\ resp.op = "login"
    /\ resp.status = 200
    /\ \E i \in resp.out :
          /\ ~users[i].is_platform_admin
          /\ \E a \in DOMAIN users :
                /\ users[a].is_platform_admin
                /\ users[a].is_active
                /\ users[a].email = users[i].email
                /\ users[a].password # users[i].password

\* C25: soft deletion is terminal for tenants, accounts and members: once the
\* deletion timestamp of a row is set, no operation clears it, changes the row
\* (or, for a member, its location) or removes the row.
C25_DeletionTerminal ==
    [][/\ \A c \in DOMAIN churches :
             churches[c].deleted_at # NULL =>
                c \in DOMAIN churches' /\ churches'[c] = churches[c]
       /\ \A u \in DOMAIN users :
             users[u].deleted_at # NULL =>
                u \in DOMAIN users' /\ users'[u] = users[u]
       /\ \A m \in DOMAIN members :
             members[m].deleted_at # NULL =>
                /\ m \in DOMAIN members' /\ members'[m] = members[m]
                /\ (m \in locations') = (m \in locations)]_vars

\* a deleted tenant, a deleted account and a deleted member exist, and an update
\* naming the deleted tenant has been answered
C25_Witness ==
    /\ resp.op = "church_update"
    /\ resp.arg.pk \in DOMAIN churches
    /\ churches[resp.arg.pk].deleted_at # NULL
    /\ churches[resp.arg.pk].status # resp.arg.status
    /\ resp.status = 404
    /\ \E u \in DOMAIN users : users[u].deleted_at # NULL
    /\ \E m \in DOMAIN members : members[m].deleted_at # NULL

\* C26: onboarding does not depend on the "Pastor" role: a request fails only
\* when it is invalid or an account already has its username or email; when it
\* succeeds the tenant and the account are created, with exactly one assignment
\* (new account, Pastor, new tenant) if the catalog has the role and with no
\* assignment if it has not.
C26_PastorRole ==
    [][resp'.op = "register" =>
        LET pastor == {r \in roles : r.name = "Pastor"}
        IN  /\ resp'.status # 201 =>
                \/ Len(resp'.arg.password) < MinLength
                \/ \E i \in DOMAIN users :
                      \/ users[i].email = resp'.arg.email
                      \/ users[i].username = resp'.arg.username
            /\ resp'.status = 201 =>
                /\ Len(churches') = Len(churches) + 1
                /\ Len(users') = Len(users) + 1
                /\ pastor = {} => userRoles' = userRoles
                /\ pastor # {} =>
                      /\ userRoles \subseteq userRoles'
                      /\ Cardinality(userRoles' \ userRoles) = 1
                      /\ \A x \in userRoles' \ userRoles :
                            /\ x.user = Len(users')
                            /\ x.role \in {r.id : r \in pastor}
                            /\ x.church = Len(churches')]_vars

\* an onboarding has been given the Pastor role, and an account onboarded before
\* the catalog had the role holds no assignment
C26_Witness ==
    /\ resp.op = "register"
    /\ resp.status = 201
    /\ \E x \in userRoles : x.user \in resp.out
    /\ \E i \in DOMAIN users :
          /\ ~users[i].is_platform_admin
          /\ \A x \in userRoles : x.user # i

\* C27: the tenant context the middleware computes is: no context for an
\* unauthenticated request; the account's own tenant for an account that is not
\* super-scope, whatever the parameter and the header; for a super-scope account
\* the tenant named by the parameter or else the header if it exists, and no
\* context otherwise; and the request never fails in the middleware.
C27_TenantContext ==
    resp.op = "process_request" =>
        LET u == resp.caller
            named == IF resp.arg.church_id # NULL THEN resp.arg.church_id
                     ELSE resp.arg.header
        IN  /\ resp.status = 200
            /\ resp.out =
                 IF u = AnonymousUser THEN {NULL}
                 ELSE IF ~users[u].is_platform_admin THEN {users[u].church}
                 ELSE IF named \in DOMAIN churches THEN {named}
                 ELSE {NULL}

\* C28: only the operator command creates super-scope accounts, and no operation
\* changes the scope flag or the tenant of an existing account.
C28_SuperScopeOnlyByCommand ==
    [][/\ \A i \in DOMAIN users :
             /\ users'[i].is_platform_admin = users[i].is_platform_admin
             /\ users'[i].church = users[i].church
       /\ \A i \in DOMAIN users' \ DOMAIN users :
             users'[i].is_platform_admin => resp'.op = "create_platform_admin"]_vars

\* C30: an assignment that was created stays until an account-role delete
\* request naming it removes it, and a role is deleted only when no assignment
\* references it, however a role deletion and an assignment creation interleave.
C30_AssignmentsPersist ==
    [][/\ \A x \in userRoles \ userRoles' :
             /\ resp'.op = "user_role_delete"
             /\ resp'.arg = x.id
       /\ \A r \in roles \ roles' :
             \A x \in userRoles : x.role # r.id]_vars
====
